---- MODULE Spec2Model ----
(***************************************************************************)
(* Model of app_connector_bridge.py: a FastAPI gateway that serves a       *)
(* static connector registry and relays tool calls to one upstream MCP     *)
(* server.  CONNECTORS is assigned once, at import, and no code writes to  *)
(* it: it is a definition.  The state is the wall clock and the handler    *)
(* that holds the event loop (uvicorn runs one process with one asyncio    *)
(* loop), with the outbound call it is blocked in.                         *)
(***************************************************************************)
EXTENDS Integers, Sequences, FiniteSets, TLC

VARIABLES
    now,            \* the wall clock read by datetime.utcnow()
    op,             \* the handler holding the event loop, "idle" when it is free
    pc,             \* its position: "idle", "in_post", "batch_loop", "done"
    input,          \* the request the handler was called with
    calls,          \* number of outbound calls made while handling the request
    wire,           \* the outbound call requests.post is blocked in, NoCall if none
    upstream,       \* how the upstream server behaved on the last call of this request
    results,        \* batch_execute: the results list
    response,       \* the HTTP response of the finished handler
    seen            \* what clients last got: total_tools of GET /health, and of GET
                    \* /connectors the tools_count of every entry and total_tools

vars == <<now, op, pc, input, calls, wire, upstream, results, response,
          seen>>

-----------------------------------------------------------------------------
(* Bounds of the model *)

MaxClock == 1

MaxBatch == 2

-----------------------------------------------------------------------------
(* Configuration, lines 33-48 *)

CASE_ID == "1FDV-23-0001009"

PERPLEXITY_API_KEY == "None"

NODE_ENV == "production"

MCP_SERVER_URL == "https://perplexity-mcp-server-production.railway.app"

USER_CONTEXT == "Casey Del Carpio Barton - Case 1FDV-23-0001009"

\* asyncio.timeout(45): the overall deadline, in seconds
DEADLINE == 45

\* requests.post(..., timeout=30): the transport timeout, in seconds
POST_TIMEOUT == 30

-----------------------------------------------------------------------------
(* The registry, lines 64-180.  connector.get("case_specific") is the      *)
(* case_specific field, FALSE where the source gives no such key.          *)

CONNECTORS ==
    [notion_suite |->
        [name |-> "Notion Workspace Suite",
         description |-> "Complete Notion integration for case documentation",
         tools |-> <<"mcp_tool_notion-search", "mcp_tool_notion-fetch",
                     "mcp_tool_notion-create-pages", "mcp_tool_notion-update-page",
                     "mcp_tool_notion-create-database", "mcp_tool_notion-update-database",
                     "mcp_tool_notion-create-comment", "mcp_tool_notion-get-comments">>,
         category |-> "productivity", priority |-> "high", case_specific |-> FALSE],
     github_suite |->
        [name |-> "GitHub Development Suite",
         description |-> "Complete GitHub integration for repository management",
         tools |-> <<"mcp_tool_github-mcp-direct_get_file_contents",
                     "mcp_tool_github-mcp-direct_create_or_update_file",
                     "mcp_tool_github-mcp-direct_create_issue",
                     "mcp_tool_github-mcp-direct_get_issue",
                     "mcp_tool_github-mcp-direct_list_issues",
                     "mcp_tool_github-mcp-direct_create_pull_request",
                     "mcp_tool_github-mcp-direct_search_repositories",
                     "mcp_tool_github-mcp-direct_search_code",
                     "mcp_tool_github-mcp-direct_create_repository">>,
         category |-> "development", priority |-> "high", case_specific |-> FALSE],
     search_intelligence |->
        [name |-> "Search Intelligence Suite",
         description |-> "Advanced search across web, memory, files, and AI history",
         tools |-> <<"search_web", "search_memory", "search_files_v2", "search_email",
                     "search_calendar", "search_ai_chat_history", "search_images">>,
         category |-> "intelligence", priority |-> "critical", case_specific |-> FALSE],
     legal_research |->
        [name |-> "Legal Research Suite",
         description |-> "Comprehensive legal research and case building for 1FDV-23-0001009",
         tools |-> <<"legal_research_courtlistener", "case_law_search", "evidence_analysis",
                     "document_review", "forensic_timeline",
                     "hawaii_family_court_research">>,
         category |-> "legal", priority |-> "critical", case_specific |-> TRUE],
     productivity_suite |->
        [name |-> "Productivity & Communication Suite",
         description |-> "Email, calendar, and communication management",
         tools |-> <<"email_calendar_agent", "create_pdf", "create_text_file",
                     "execute_python", "create_chart">>,
         category |-> "productivity", priority |-> "medium", case_specific |-> FALSE],
     ai_generation |->
        [name |-> "AI Generation Suite",
         description |-> "Content creation and visual generation",
         tools |-> <<"generate_image", "create_chart", "create_pdf", "execute_python">>,
         category |-> "generation", priority |-> "medium", case_specific |-> FALSE],
     finance_intelligence |->
        [name |-> "Finance Intelligence Suite",
         description |-> "Financial analysis and market research",
         tools |-> <<"finance_ticker_lookup", "finance_price_history",
                     "finance_company_financials", "finance_screener">>,
         category |-> "finance", priority |-> "low", case_specific |-> FALSE],
     case_management |->
        [name |-> "Case 1FDV-23-0001009 Management",
         description |-> "Dedicated case management and evidence orchestration",
         tools |-> <<"case_timeline_builder", "evidence_cataloger",
                     "hearing_prep_assistant", "kekoa_wellness_tracker",
                     "teresa_documentation", "father_son_reunion_planner">>,
         category |-> "case_specific", priority |-> "critical", case_specific |-> FALSE]]

\* CONNECTORS.items() / .values(): a dict iterates in definition order
ConnectorOrder ==
    <<"notion_suite", "github_suite", "search_intelligence", "legal_research",
      "productivity_suite", "ai_generation", "finance_intelligence", "case_management">>

-----------------------------------------------------------------------------
(* Python values *)

\* {} : the empty dict
EmptyDict == <<>>

\* None, as dict.get returns it for a missing key
None == "None"

\* d.get(k, default)
DictGet(d, k, default) == IF k \in DOMAIN d THEN d[k] ELSE default

\* {**a, **b}: the keys of both, b's value where both have the key
DictUnpack(a, b) ==
    [k \in DOMAIN a \cup DOMAIN b |-> IF k \in DOMAIN b THEN b[k] ELSE a[k]]

\* x in list
InList(x, list) == \E i \in 1..Len(list) : list[i] = x

\* datetime.utcnow().isoformat() at clock value t
isoformat(t) == "2025-11-03T00:00:0" \o ToString(t)

\* mutant: the distinct tool names are counted
SumTools_Distinct(reg, order) ==
    Cardinality(UNION {{reg[order[i]].tools[j] : j \in 1..Len(reg[order[i]].tools)} :
                       i \in 1..Len(order)})

\* sum(len(connector["tools"]) for connector in CONNECTORS.values())
RECURSIVE SumTools(_, _)
SumTools(reg, order) ==
    IF order = <<>> THEN 0
    ELSE Len(reg[Head(order)].tools) + SumTools(reg, Tail(order))

-----------------------------------------------------------------------------
(* Request models, lines 51-61 *)

\* ToolRequest(**raw) raises ValidationError: tool is the one required field
ValidationError(raw) == "tool" \notin DOMAIN raw

\* ToolRequest(**raw), arguments and context defaulting to {}
ToolRequest(raw) ==
    [tool |-> raw.tool,
     arguments |-> DictGet(raw, "arguments", EmptyDict),
     context |-> DictGet(raw, "context", EmptyDict)]

ConnectorResponse(tool, result, t, connector_id) ==
    [status |-> "success", tool |-> tool, result |-> result,
     timestamp |-> isoformat(t), connector |-> connector_id]

\* raise HTTPException(status_code, detail), as the response FastAPI makes of it
HTTPException(status_code, detail) ==
    [status |-> status_code, body |-> [detail |-> detail]]

\* str(e) of an HTTPException
StrOfHTTPException(e) == ToString(e.status) \o ": " \o e.body.detail

-----------------------------------------------------------------------------
(* The upstream server, as requests.post sees it.  connect: the connection *)
(* is made; first_byte: seconds from the request to the first byte of the  *)
(* response; total: seconds until the whole response is there; status,     *)
(* body: the response.                                                     *)

UpstreamBehaviours ==
    { [connect |-> TRUE,  status |-> 200, body |-> "{\"ok\": true}", first_byte |-> 1,  total |-> 2],
      [connect |-> TRUE,  status |-> 200, body |-> "<html>502</html>", first_byte |-> 1,  total |-> 2],
      [connect |-> TRUE,  status |-> 503, body |-> "{\"error\": \"down\"}", first_byte |-> 1,  total |-> 2],
      [connect |-> FALSE, status |-> 0,   body |-> "", first_byte |-> 0,  total |-> 0],
      [connect |-> TRUE,  status |-> 200, body |-> "{\"ok\": true}", first_byte |-> 60, total |-> 61],
      [connect |-> TRUE,  status |-> 200, body |-> "{\"ok\": true}", first_byte |-> 20, total |-> 50] }

\* json.loads on the bodies above that are JSON
JsonLoads ==
    ("{\"ok\": true}" :> [ok |-> "true"]) @@ ("{\"error\": \"down\"}" :> [error |-> "down"])

-----------------------------------------------------------------------------
(* GET /connectors, lines 197-224 *)

\* the for loop of list_connectors from the connectors in order on, with
\* connector_summary and total_tools as accumulated so far
RECURSIVE ListLoop(_, _, _, _)
ListLoop(reg, order, connector_summary, total_tools) ==
    IF order = <<>> THEN [connectors |-> connector_summary, total_tools |-> total_tools]
    ELSE LET connector_id == Head(order)
             connector == reg[connector_id]
             tools_count == Len(connector.tools)
             entry == [name |-> connector.name,
                       description |-> connector.description,
                       tools_count |-> tools_count,
                       category |-> connector.category,
                       priority |-> connector.priority,
                       available |-> TRUE]
             withCase == IF connector.case_specific
                         THEN DictUnpack(entry, [case_id |-> CASE_ID])
                         ELSE entry
         IN  ListLoop(reg, Tail(order),
                      DictUnpack(connector_summary, [k \in {connector_id} |-> withCase]),
                      total_tools + tools_count)

ListBody(reg) ==
    LET done == ListLoop(reg, ConnectorOrder, EmptyDict, 0)
    IN  [connectors |-> done.connectors,
         total_connectors |-> Cardinality(DOMAIN reg),
         total_tools |-> done.total_tools,
         case_id |-> CASE_ID,
         status |-> "all_systems_operational"]

-----------------------------------------------------------------------------
(* POST /connectors/{connector_id}/execute, lines 246-310 *)

\* FastAPI's answer to a body that does not validate as ToolRequest (line 247)
RequestValidationError ==
    [status |-> 422, body |-> [detail |-> "tool: field required"]]

\* mutant: the tool is looked up in every connector's list
Rejected_ToolOfAnyConnector(reg, connector_id, request) ==
    IF connector_id \notin DOMAIN reg THEN TRUE
    ELSE ~\E c \in DOMAIN reg : InList(request.tool, reg[c].tools)

\* lines 248-257: execute_connector_tool raises before it calls upstream
Rejected(reg, connector_id, request) ==
    IF connector_id \notin DOMAIN reg THEN TRUE
    ELSE ~InList(request.tool, reg[connector_id].tools)

\* mutant: the tool's 400 also for a connector that does not exist
Rejection_Always400(reg, connector_id, request) ==
    HTTPException(400, "Tool " \o request.tool \o " not available in connector "
                       \o connector_id)

Rejection(reg, connector_id, request) ==
    IF connector_id \notin DOMAIN reg
    THEN HTTPException(404, "Connector not found")
    ELSE HTTPException(400, "Tool " \o request.tool \o " not available in connector "
                            \o connector_id)

\* mutant: the fixed fields first, the caller's keys over them
enhanced_context_CallerWins(request, connector_id, t) ==
    DictUnpack([case_id |-> CASE_ID,
                connector_id |-> connector_id,
                timestamp |-> isoformat(t),
                user_context |-> USER_CONTEXT],
               DictUnpack(request.arguments, request.context))

\* lines 260-267
enhanced_context(request, connector_id, t) ==
    DictUnpack(DictUnpack(request.arguments, request.context),
               [case_id |-> CASE_ID,
                connector_id |-> connector_id,
                timestamp |-> isoformat(t),
                user_context |-> USER_CONTEXT])

\* lines 270-276
payload(request, connector_id, t) ==
    [method |-> "tools/call",
     params |-> [name |-> request.tool,
                 arguments |-> enhanced_context(request, connector_id, t)]]

\* lines 278-283
headers(connector_id) ==
    [ContentType |-> "application/json",
     Authorization |-> "Bearer " \o PERPLEXITY_API_KEY,
     XCaseID |-> CASE_ID,
     XConnectorID |-> connector_id]

\* lines 288-293: the one requests.post
OutboundCall(request, connector_id, t) ==
    [url |-> MCP_SERVER_URL \o "/mcp",
     json |-> payload(request, connector_id, t),
     headers |-> headers(connector_id),
     timeout |-> POST_TIMEOUT]

\* Whether the body of `async with asyncio.timeout(45)` ever yields to the
\* event loop: requests.post, raise_for_status and json are synchronous calls,
\* there is no await between entering and leaving the block.  The deadline's
\* timer callback is run by the event loop, so it runs only if the block yields.
BlockYields == FALSE

\* lines 287-295: the exception the block ends with against upstream
\* behaviour b, "none" when it ends normally
Raised(b) ==
    IF ~b.connect THEN "ConnectionError"
    ELSE IF b.first_byte > POST_TIMEOUT THEN "ReadTimeout"
    ELSE IF BlockYields /\ b.total > DEADLINE THEN "asyncio.TimeoutError"
    ELSE IF b.status >= 400 THEN "HTTPError"
    ELSE IF b.body \notin DOMAIN JsonLoads THEN "JSONDecodeError"
    ELSE "none"

\* The installed requests library: from 2.27 on Response.json() raises
\* requests.exceptions.JSONDecodeError, a RequestException (TRUE); before, the
\* json module's own error, a ValueError (FALSE).  The source pins no version.
RequestsBuilds == BOOLEAN

\* isinstance(e, requests.exceptions.RequestException)
IsRequestException(exc, jsonIsReqExc) ==
    \/ exc \in {"ConnectionError", "ReadTimeout", "HTTPError"}
    \/ exc = "JSONDecodeError" /\ jsonIsReqExc

\* lines 305-310: the except clauses, in order
ExceptClauses(exc, jsonIsReqExc) ==
    IF exc = "asyncio.TimeoutError"
    THEN HTTPException(504, "Tool execution timeout")
    ELSE IF IsRequestException(exc, jsonIsReqExc)
    THEN HTTPException(502, "MCP server error: " \o exc)
    ELSE HTTPException(500, "Execution error: " \o exc)

\* lines 285-310: what execute_connector_tool ends with once the call it made
\* meets upstream behaviour b, at clock value t
Completed(request, connector_id, b, t, jsonIsReqExc) ==
    LET exc == Raised(b)
    IN  IF exc = "none"
        THEN [status |-> 200,
              body |-> ConnectorResponse(request.tool, JsonLoads[b.body], t, connector_id)]
        ELSE ExceptClauses(exc, jsonIsReqExc)

-----------------------------------------------------------------------------
(* POST /connectors/batch, lines 377-404 *)

\* lines 387-397: the entry appended for an item whose execute ended with r
BatchEntry(connector_id, r) ==
    IF r.status = 200
    THEN [connector_id |-> connector_id, status |-> "success", result |-> r.body]
    ELSE [connector_id |-> connector_id, status |-> "error",
          error |-> StrOfHTTPException(r)]

\* len([r for r in results if r["status"] == status])
CountStatus(rs, status) == Cardinality({i \in 1..Len(rs) : rs[i].status = status})

\* lines 399-404
BatchBody(requests, rs) ==
    [batch_results |-> rs,
     total_requests |-> Len(requests),
     successful |-> CountStatus(rs, "success"),
     failed |-> CountStatus(rs, "error")]

\* an exception no handler catches: Starlette answers 500
InternalServerError ==
    [status |-> 500, body |-> [detail |-> "Internal Server Error"]]

-----------------------------------------------------------------------------
(* The requests the clients send *)

ConnectorIdInputs == (DOMAIN CONNECTORS) \cup {"unknown-id"}

ToolInputs == {"search_web", "create_pdf", "generate_image", "no_such_tool"}

DictInputs ==
    { EmptyDict,
      [q |-> "x"],
      [q |-> "y", case_id |-> "SPOOFED", connector_id |-> "SPOOFED",
       timestamp |-> "SPOOFED", user_context |-> "SPOOFED"] }

\* JSON bodies of POST /connectors/{id}/execute: with a tool, and without
BodyInputs ==
    { [tool |-> t, arguments |-> a, context |-> c] :
          t \in ToolInputs, a \in DictInputs, c \in DictInputs }
    \cup { [tool |-> t] : t \in ToolInputs }
    \cup { EmptyDict, [arguments |-> [q |-> "x"]] }

\* items of the JSON list sent to POST /connectors/batch
BatchItemInputs ==
    { [connector_id |-> "search_intelligence",
       request |-> [tool |-> "search_web", arguments |-> [q |-> "x"]]],
      [connector_id |-> "ai_generation",
       request |-> [tool |-> "create_pdf", context |-> [case_id |-> "SPOOFED"]]],
      [connector_id |-> "unknown-id", request |-> [tool |-> "search_web"]],
      [connector_id |-> "ai_generation", request |-> [tool |-> "search_web"]],
      [connector_id |-> "notion_suite", request |-> [arguments |-> [q |-> "x"]]] }

RECURSIVE SeqsUpTo(_, _)
SeqsUpTo(S, n) ==
    IF n = 0 THEN {<<>>}
    ELSE LET shorter == SeqsUpTo(S, n - 1)
         IN  shorter \cup {Append(q, x) : q \in {r \in shorter : Len(r) = n - 1}, x \in S}

BatchInputs == SeqsUpTo(BatchItemInputs, MaxBatch)

CaseIdInputs == {CASE_ID, "2FDV-00-0000000"}

-----------------------------------------------------------------------------
(* The event loop *)

NoResponse == [status |-> 0, body |-> EmptyDict]

NoCall == EmptyDict

NoBehaviour == EmptyDict

\* uvicorn.run(app) serves with one process and one asyncio event loop, and
\* every handler is a coroutine that never yields: the loop can start a handler
\* only when no other handler is running.
LoopFree == pc = "idle"

\* a request arrives and the loop calls its handler
Dispatch(name, req) ==
    /\ LoopFree
    /\ op' = name
    /\ input' = req

\* the handler returns (or raises) and resp is the HTTP response
Return(resp) ==
    /\ pc' = "done"
    /\ response' = resp

Init ==
    /\ now = 0
    /\ op = "idle"
    /\ pc = "idle"
    /\ input = EmptyDict
    /\ calls = 0
    /\ wire = NoCall
    /\ upstream = NoBehaviour
    /\ results = <<>>
    /\ response = NoResponse
    /\ seen = [health_total |-> -1, list |-> EmptyDict]

\* time passes
Tick ==
    /\ now < MaxClock
    /\ now' = now + 1
    /\ UNCHANGED <<op, pc, input, calls, wire, upstream, results, response,
                   seen>>

\* the response is written to the client and the handler's frame is dropped
Reply ==
    /\ pc = "done"
    /\ pc' = "idle"
    /\ op' = "idle"
    /\ input' = EmptyDict
    /\ calls' = 0
    /\ wire' = NoCall
    /\ upstream' = NoBehaviour
    /\ results' = <<>>
    /\ response' = NoResponse
    /\ UNCHANGED <<now, seen>>

-----------------------------------------------------------------------------
(* The handlers *)

\* GET /health, lines 183-194
health_check ==
    /\ Dispatch("health_check", EmptyDict)
    /\ LET total_tools == SumTools(CONNECTORS, ConnectorOrder)
       IN  /\ Return([status |-> 200,
                      body |-> [status |-> "healthy",
                                service |-> "perplexity-app-connector-bridge-maximum",
                                version |-> "2.0.0",
                                connectors_available |-> Cardinality(DOMAIN CONNECTORS),
                                total_tools |-> total_tools,
                                case_id |-> CASE_ID,
                                environment |-> NODE_ENV,
                                timestamp |-> isoformat(now)]])
           /\ seen' = [seen EXCEPT !.health_total = total_tools]
    /\ UNCHANGED <<now, calls, wire, upstream, results>>

\* GET /connectors, lines 197-224
list_connectors ==
    /\ Dispatch("list_connectors", EmptyDict)
    /\ Return([status |-> 200, body |-> ListBody(CONNECTORS)])
    /\ LET body == ListBody(CONNECTORS)
       IN  seen' = [seen EXCEPT !.list =
                       [tools_count |-> [id \in DOMAIN body.connectors |->
                                            body.connectors[id].tools_count],
                        total_tools |-> body.total_tools]]
    /\ UNCHANGED <<now, calls, wire, upstream, results>>

\* GET /connectors/{connector_id}, lines 227-243
get_connector_details(connector_id) ==
    /\ Dispatch("get_connector_details", [connector_id |-> connector_id])
    /\ IF connector_id \notin DOMAIN CONNECTORS
       THEN Return(HTTPException(404, "Connector not found"))
       ELSE LET connector == CONNECTORS[connector_id]
            IN  Return([status |-> 200,
                        body |-> [connector_id |-> connector_id,
                                  name |-> connector.name,
                                  description |-> connector.description,
                                  tools |-> connector.tools,
                                  category |-> connector.category,
                                  priority |-> connector.priority,
                                  tools_count |-> Len(connector.tools),
                                  case_specific |-> connector.case_specific]])
    /\ UNCHANGED <<now, calls, wire, upstream, results, seen>>

\* POST /connectors/{connector_id}/execute, lines 246-283 and the requests.post
\* of line 288: up to the point where the handler waits for upstream
execute_connector_tool(connector_id, raw) ==
    /\ Dispatch("execute_connector_tool", [connector_id |-> connector_id, body |-> raw])
    /\ IF ValidationError(raw)
       THEN /\ Return(RequestValidationError)
            /\ UNCHANGED <<calls, wire>>
       ELSE IF Rejected(CONNECTORS, connector_id, ToolRequest(raw))
       THEN /\ Return(Rejection(CONNECTORS, connector_id, ToolRequest(raw)))
            /\ UNCHANGED <<calls, wire>>
       ELSE /\ calls' = calls + 1
            /\ wire' = OutboundCall(ToolRequest(raw), connector_id, now)
            /\ pc' = "in_post"
            /\ response' = response
    /\ UNCHANGED <<now, upstream, results, seen>>

\* mutant: a call that raised is made once more
execute_post_returns_Retry(b, jsonIsReqExc) ==
    /\ op = "execute_connector_tool"
    /\ pc = "in_post"
    /\ IF Raised(b) # "none" /\ calls < 2
       THEN /\ calls' = calls + 1
            /\ UNCHANGED <<pc, response, wire, upstream>>
       ELSE /\ Return(Completed(ToolRequest(input.body), input.connector_id, b, now,
                                jsonIsReqExc))
            /\ wire' = NoCall
            /\ upstream' = b
            /\ calls' = calls
    /\ UNCHANGED <<now, op, input, results, seen>>

\* lines 288-310: requests.post returns or raises against upstream behaviour b
\* and the handler runs to its end
execute_post_returns(b, jsonIsReqExc) ==
    /\ op = "execute_connector_tool"
    /\ pc = "in_post"
    /\ Return(Completed(ToolRequest(input.body), input.connector_id, b, now,
                        jsonIsReqExc))
    /\ wire' = NoCall
    /\ upstream' = b
    /\ UNCHANGED <<now, op, input, calls, results, seen>>

\* POST /connectors/batch, lines 377-379
batch_execute(requests) ==
    /\ Dispatch("batch_execute", [requests |-> requests])
    /\ pc' = "batch_loop"
    /\ results' = <<>>
    /\ UNCHANGED <<now, calls, wire, upstream, response, seen>>

\* mutant: no try around the call, the first item that fails ends the batch
batch_next_item_AbortOnFailure ==
    /\ op = "batch_execute"
    /\ pc = "batch_loop"
    /\ Len(results) < Len(input.requests)
    /\ LET req == input.requests[Len(results) + 1]
           connector_id == DictGet(req, "connector_id", None)
           raw == DictGet(req, "request", EmptyDict)
       IN  IF ValidationError(raw)
           THEN /\ Return(InternalServerError)
                /\ UNCHANGED <<calls, wire, results>>
           ELSE IF Rejected(CONNECTORS, connector_id, ToolRequest(raw))
           THEN /\ Return(Rejection(CONNECTORS, connector_id, ToolRequest(raw)))
                /\ UNCHANGED <<calls, wire, results>>
           ELSE /\ calls' = calls + 1
                /\ wire' = OutboundCall(ToolRequest(raw), connector_id, now)
                /\ pc' = "in_post"
                /\ UNCHANGED <<results, response>>
    /\ upstream' = NoBehaviour
    /\ UNCHANGED <<now, op, input, seen>>

\* lines 381-397, one turn of the for loop up to the await: the item is read,
\* ToolRequest is built outside the try, execute_connector_tool is called
batch_next_item ==
    /\ op = "batch_execute"
    /\ pc = "batch_loop"
    /\ Len(results) < Len(input.requests)
    /\ LET req == input.requests[Len(results) + 1]
           connector_id == DictGet(req, "connector_id", None)
           raw == DictGet(req, "request", EmptyDict)
       IN  IF ValidationError(raw)
           THEN /\ Return(InternalServerError)
                /\ UNCHANGED <<calls, wire, results>>
           ELSE IF Rejected(CONNECTORS, connector_id, ToolRequest(raw))
           THEN /\ results' = Append(results,
                        BatchEntry(connector_id,
                                   Rejection(CONNECTORS, connector_id, ToolRequest(raw))))
                /\ UNCHANGED <<pc, calls, wire, response>>
           ELSE /\ calls' = calls + 1
                /\ wire' = OutboundCall(ToolRequest(raw), connector_id, now)
                /\ pc' = "in_post"
                /\ UNCHANGED <<results, response>>
    /\ upstream' = NoBehaviour
    /\ UNCHANGED <<now, op, input, seen>>

\* lines 386-397: the awaited execute_connector_tool ends against upstream
\* behaviour b and the item's entry is appended
batch_post_returns(b, jsonIsReqExc) ==
    /\ op = "batch_execute"
    /\ pc = "in_post"
    /\ LET req == input.requests[Len(results) + 1]
           connector_id == DictGet(req, "connector_id", None)
           tool_request == ToolRequest(DictGet(req, "request", EmptyDict))
       IN  results' = Append(results,
                BatchEntry(connector_id,
                           Completed(tool_request, connector_id, b, now, jsonIsReqExc)))
    /\ pc' = "batch_loop"
    /\ wire' = NoCall
    /\ upstream' = b
    /\ UNCHANGED <<now, op, input, calls, response, seen>>

\* lines 399-404: the loop is over
batch_return ==
    /\ op = "batch_execute"
    /\ pc = "batch_loop"
    /\ Len(results) >= Len(input.requests)
    /\ Return([status |-> 200, body |-> BatchBody(input.requests, results)])
    /\ UNCHANGED <<now, op, input, calls, wire, upstream, results,
                   seen>>

\* GET /mobile/dashboard, lines 313-374 (the fields computed from the registry)
mobile_dashboard ==
    /\ Dispatch("mobile_dashboard", EmptyDict)
    /\ Return([status |-> 200,
               body |-> [case_id |-> CASE_ID,
                         online |-> Cardinality(DOMAIN CONNECTORS),
                         total |-> Cardinality(DOMAIN CONNECTORS),
                         last_health_check |-> isoformat(now),
                         total_tools_available |-> SumTools(CONNECTORS, ConnectorOrder)]])
    /\ UNCHANGED <<now, calls, wire, upstream, results, seen>>

\* len([tool for connector in CONNECTORS.values()
\*      if connector.get("case_specific") for tool in connector["tools"]])
RECURSIVE CaseTools(_, _)
CaseTools(reg, order) ==
    IF order = <<>> THEN 0
    ELSE (IF reg[Head(order)].case_specific THEN Len(reg[Head(order)].tools) ELSE 0)
         + CaseTools(reg, Tail(order))

\* GET /case/{case_id}/status, lines 407-432
get_case_status(case_id) ==
    /\ Dispatch("get_case_status", [case_id |-> case_id])
    /\ IF case_id # CASE_ID
       THEN Return(HTTPException(404, "Case not found"))
       ELSE Return([status |-> 200,
                    body |-> [case_id |-> case_id,
                              available_tools |-> CaseTools(CONNECTORS, ConnectorOrder)]])
    /\ UNCHANGED <<now, calls, wire, upstream, results, seen>>

\* GET /, lines 435-452
root ==
    /\ Dispatch("root", EmptyDict)
    /\ Return([status |-> 200,
               body |-> [service |-> "Perplexity App Connector Bridge - Maximum Intelligence",
                         version |-> "2.0.0",
                         case_id |-> CASE_ID,
                         connectors_available |-> Cardinality(DOMAIN CONNECTORS),
                         total_tools |-> SumTools(CONNECTORS, ConnectorOrder)]])
    /\ UNCHANGED <<now, calls, wire, upstream, results, seen>>

Next ==
    \/ Tick
    \/ Reply
    \/ health_check
    \/ list_connectors
    \/ \E connector_id \in ConnectorIdInputs : get_connector_details(connector_id)
    \/ \E connector_id \in ConnectorIdInputs, raw \in BodyInputs :
           execute_connector_tool(connector_id, raw)
    \/ \E b \in UpstreamBehaviours, jsonIsReqExc \in RequestsBuilds :
           execute_post_returns(b, jsonIsReqExc)
    \/ \E requests \in BatchInputs : batch_execute(requests)
    \/ batch_next_item
    \/ \E b \in UpstreamBehaviours, jsonIsReqExc \in RequestsBuilds :
           batch_post_returns(b, jsonIsReqExc)
    \/ batch_return
    \/ mobile_dashboard
    \/ \E case_id \in CaseIdInputs : get_case_status(case_id)
    \/ root

Spec == Init /\ [][Next]_vars

-----------------------------------------------------------------------------
(* Properties *)

FixedKeys == {"case_id", "connector_id", "timestamp", "user_context"}

\* the raw request of a batch item, and whether it builds a ToolRequest
ItemRaw(item) == DictGet(item, "request", EmptyDict)

ItemConnector(item) == DictGet(item, "connector_id", None)

\* the connector id and ToolRequest the handler is executing
Current ==
    IF op = "execute_connector_tool"
    THEN [connector_id |-> input.connector_id, request |-> ToolRequest(input.body)]
    ELSE [connector_id |-> ItemConnector(input.requests[Len(results) + 1]),
          request |-> ToolRequest(ItemRaw(input.requests[Len(results) + 1]))]

\* an execute request that passes the validation of its body, connector and tool
PassesValidation(connector_id, raw) ==
    /\ ~ValidationError(raw)
    /\ connector_id \in DOMAIN CONNECTORS
    /\ InList(raw.tool, CONNECTORS[connector_id].tools)

UnknownConnectorRequest ==
    /\ op \in {"get_connector_details", "execute_connector_tool"}
    /\ input.connector_id \notin DOMAIN CONNECTORS

C2_ForeignToolIs400 ==
    ( /\ op = "execute_connector_tool"
      /\ input.connector_id \in DOMAIN CONNECTORS
      /\ ~ValidationError(input.body)
      /\ ~InList(input.body.tool, CONNECTORS[input.connector_id].tools) ) =>
        /\ pc = "done"
        /\ response.status = 400
        /\ calls = 0
        /\ wire = NoCall

C2_Witness ==
    /\ op = "execute_connector_tool"
    /\ pc = "done"
    /\ input.connector_id = "productivity_suite"
    /\ ~ValidationError(input.body)
    /\ input.body.tool = "generate_image"
    /\ InList("generate_image", CONNECTORS["ai_generation"].tools)
    /\ response.status = 400

\* C3: the arguments of every payload sent upstream carry the gateway's
\* case_id, connector_id, timestamp and user_context, whatever the caller put
\* under those keys; every other caller key is passed through, the context's
\* value where arguments and context both have the key.
C3_FixedFieldsWin ==
    pc = "in_post" =>
        LET sent == wire.json.params.arguments
            request == Current.request
        IN  /\ sent.case_id = CASE_ID
            /\ sent.connector_id = Current.connector_id
            /\ sent.timestamp \in {isoformat(t) : t \in 0..now}
            /\ sent.user_context = USER_CONTEXT
            /\ DOMAIN sent = DOMAIN request.arguments \cup DOMAIN request.context
                             \cup FixedKeys
            /\ \A k \in (DOMAIN sent) \ FixedKeys :
                   sent[k] = IF k \in DOMAIN request.context
                             THEN request.context[k] ELSE request.arguments[k]

C3_Witness ==
    /\ op = "execute_connector_tool"
    /\ pc = "in_post"
    /\ Current.request.arguments = [q |-> "x"]
    /\ "case_id" \in DOMAIN Current.request.context
    /\ Current.request.context.case_id = "SPOOFED"
    /\ Current.request.context.q = "y"
    /\ wire.json.params.arguments.q = "y"
    /\ wire.json.params.arguments.case_id = CASE_ID

\* C4: when the upstream server gives no response before the deadline, a
\* valid execute answers 504 and never 502.
C4_NoResponseIs504 ==
    ( /\ op = "execute_connector_tool"
      /\ pc = "done"
      /\ calls = 1
      /\ upstream.connect
      /\ upstream.first_byte > DEADLINE ) =>
        response.status = 504

\* the batch's items all build a ToolRequest
WellFormedBatch(requests) ==
    \A i \in 1..Len(requests) : ~ValidationError(ItemRaw(requests[i]))

\* the batch entry is the one for an execute that ended with r
EntryCarries(entry, r) ==
    IF r.status = 200
    THEN entry.status = "success" /\ entry.result = r.body
    ELSE entry.status = "error" /\ entry.error = StrOfHTTPException(r)

\* the batch entry carries what one execute of the item alone can end with
CarriesOwnOutcome(entry, connector_id, request) ==
    IF Rejected(CONNECTORS, connector_id, request)
    THEN EntryCarries(entry, Rejection(CONNECTORS, connector_id, request))
    ELSE \E b \in UpstreamBehaviours, t \in 0..now, l \in RequestsBuilds :
             EntryCarries(entry, Completed(request, connector_id, b, t, l))

\* C5: a batch of N well-formed items returns N entries, the i-th for the
\* i-th item; the entry of an item that names an unknown connector is marked
\* failed, every entry carries what the item's own execute ends with, and the
\* items after a failed one are still attempted.
C5_BatchKeepsEveryItem ==
    (op = "batch_execute" /\ WellFormedBatch(input.requests)) =>
        /\ Len(results) <= Len(input.requests)
        /\ \A i \in 1..Len(results) :
              LET connector_id == ItemConnector(input.requests[i])
                  request == ToolRequest(ItemRaw(input.requests[i]))
              IN  /\ results[i].connector_id = connector_id
                  /\ connector_id \notin DOMAIN CONNECTORS => results[i].status = "error"
                  /\ CarriesOwnOutcome(results[i], connector_id, request)
        /\ pc = "done" =>
              /\ response.status = 200
              /\ response.body.batch_results = results
              /\ Len(results) = Len(input.requests)

C5_Witness ==
    /\ op = "batch_execute"
    /\ pc = "done"
    /\ Len(input.requests) = 2
    /\ ItemConnector(input.requests[1]) = "unknown-id"
    /\ response.status = 200
    /\ Len(response.body.batch_results) = 2
    /\ response.body.batch_results[1].status = "error"
    /\ response.body.batch_results[2].status = "success"
    /\ calls = 1

\* C6: in a batch, a malformed item (no tool field) becomes a failure entry
\* of its own: the batch still returns one entry per item.
C6_MalformedItemIsAnEntry ==
    (op = "batch_execute" /\ pc = "done") =>
        /\ response.status = 200
        /\ Len(response.body.batch_results) = Len(input.requests)

RECURSIVE SumCounts(_, _)
SumCounts(summary, ids) ==
    IF ids = {} THEN 0
    ELSE LET id == CHOOSE x \in ids : TRUE
         IN  summary[id] + SumCounts(summary, ids \ {id})

\* C7: after any sequence of requests the tools_count values of GET
\* /connectors add up to its total_tools and to the total_tools of GET
\* /health.
C7_TotalsAgree ==
    /\ seen.list # EmptyDict =>
          SumCounts(seen.list.tools_count, DOMAIN seen.list.tools_count)
              = seen.list.total_tools
    /\ (seen.list # EmptyDict /\ seen.health_total >= 0) =>
          seen.list.total_tools = seen.health_total

C7_Witness ==
    /\ seen.list # EmptyDict
    /\ seen.health_total >= 0
    /\ op = "batch_execute"
    /\ pc = "done"
    /\ calls > 0

\* the items among the first n that reach the outbound call
CallsDue(requests, n) ==
    Cardinality({i \in 1..n : PassesValidation(ItemConnector(requests[i]),
                                               ItemRaw(requests[i]))})

C9_UnparseableBodyIs500 ==
    ( /\ op = "execute_connector_tool"
      /\ pc = "done"
      /\ calls = 1
      /\ upstream.connect
      /\ upstream.first_byte <= POST_TIMEOUT
      /\ upstream.status = 200
      /\ upstream.body \notin DOMAIN JsonLoads ) =>
        response.status = 500

\* C10: while an execute waits for the upstream server, the gateway can
\* accept and complete another request, GET /health for one.
C10_HealthServedWhileWaiting ==
    (op = "execute_connector_tool" /\ pc = "in_post") => ENABLED health_check

====
